---- MODULE Spec2Model ----
(***************************************************************************)
(* A model of the three variants of the brokerage HTTP facade:             *)
(*   "main"     - src/main.js            (Deno, cache object, no id memo)  *)
(*   "part_000" - src/unnamed/part_000   (Deno, Map caches, TTL per entry) *)
(*   "part_001" - src/unnamed/part_001   (express + SDK)                   *)
(* Every HTTP request is a task that runs synchronously up to its next     *)
(* await of a remote call; each action below is one such run: the start of *)
(* a handler up to its first remote call, or the return of a remote call   *)
(* up to the next one (or up to the response).                             *)
(* Floating-point values are held as exact decimals [w, f]: w + f / 1e9    *)
(* with 0 <= f < 1e9.                                                      *)
(***************************************************************************)
EXTENDS Integers, Sequences, FiniteSets, TLC

VARIABLES variant, clock, priceCache, lastUpdate, tickerFigiMap,
          cachedAccountId, req, started, limit, fetchedAt, resolved,
          listings, conv

\* variant          which of the three servers runs
\* clock            Date.now(), in ms
\* priceCache       cache.prices (main), priceCache (part_000, part_001)
\* lastUpdate       cache.lastUpdate (main)
\* tickerFigiMap    tickerFigiMap (part_000, part_001)
\* cachedAccountId  cachedAccountId ("" while unset)
\* req              the tasks: where each stands (pc), its locals, its
\*                  response, and what it did so far: calls (remote calls
\*                  issued, by endpoint), inflight (remote calls awaited),
\*                  upstreamFailed (a remote call failed or found nothing),
\*                  absentField (an order body lacked a field)
\* started, limit   requests started so far, and how many a run may start
\* fetchedAt        per ticker, Date.now() when the remote price call behind
\*                  the cached entry returned
\* resolved         tickers a remote search has resolved to an instrument id
\* listings         account listings that returned a usable account
vars == <<variant, clock, priceCache, lastUpdate, tickerFigiMap,
          cachedAccountId, req, started, limit, fetchedAt, resolved,
          listings, conv>>

\* ------------------------------------------------------------------ bounds
NumReqs == 2
MaxRequests == 2
MaxQuoteRequests == 3
MaxOrderRequests == 3
MaxTicks == 2
TickMs == 2500
MaxPositions == 2
MaxUnits == 2

\* --------------------------------------------------------- program constants
CACHE_TTL_MS == 5000
NANO == 1000000000

Variants == {"main", "part_000", "part_001"}
Reqs == 1..NumReqs
Tickers == {"SBER", "SBMX"}
DefaultTicker == "SBER"
NoParam == "<absent>"
Figis == {"F1", "F2"}
AccountIds == {"A1"}
\* Date.now() when the process starts: far from the initial lastUpdate of 0
StartClock == 2 * CACHE_TTL_MS

\* ------------------------------------------------------ numeric conversion
NoQuotation == [absent |-> TRUE]
Quotations == {[units |-> 191, nano |-> 500000000]}

Fx(w, f) == [w |-> w, f |-> f]

quotationToFloat(quotation) ==
    IF quotation = NoQuotation THEN Fx(0, 0)
    ELSE LET nano == IF "nano" \in DOMAIN quotation THEN quotation.nano ELSE 0
         IN  Fx(quotation.units + (nano \div NANO), nano % NANO)

moneyValueToFloat(moneyValue) ==
    IF moneyValue = NoQuotation THEN Fx(0, 0)
    ELSE LET nano == IF "nano" \in DOMAIN moneyValue THEN moneyValue.nano ELSE 0
         IN  Fx(moneyValue.units + (nano \div NANO), nano % NANO)

\* a number finer than a nano: w + (f + d/10) / 1e9 with 0 <= f < 1e9 and
\* 0 <= d <= 9, so w is the floor of the number
Num(w, f, d) == [w |-> w, f |-> f, d |-> d]

\* floatToQuotation with the sign of nano dropped
floatToQuotationAbsNano(value) ==
    LET neg   == value.w < 0 /\ (value.f # 0 \/ value.d # 0)
        units == IF neg THEN value.w + 1 ELSE value.w
        whole == IF neg THEN value.f - NANO ELSE value.f
        nano  == whole + (IF value.d >= 5 THEN 1 ELSE 0)
    IN  [units |-> units, nano |-> IF nano < 0 THEN -nano ELSE nano]

\* Math.trunc rounds toward zero: a negative number with a fraction has
\* units one above its floor, and value - units is then f + d/10 - 1e9
\* nanos.  Math.round rounds a half up, so the tenths digit d adds one
\* nano from 5 on, whatever the sign.
floatToQuotation(value) ==
    LET neg   == value.w < 0 /\ (value.f # 0 \/ value.d # 0)
        units == IF neg THEN value.w + 1 ELSE value.w
        whole == IF neg THEN value.f - NANO ELSE value.f
        nano  == whole + (IF value.d >= 5 THEN 1 ELSE 0)
    IN  [units |-> units, nano |-> nano]

\* the numbers the conversions are applied to: both signs, fractions at the
\* ends and the middle of a unit, every tenth of a nano
NanoSamples == {0, 1, 499999999, 500000000, 999999999}
Values == {Num(w, f, d) : w \in -MaxUnits..MaxUnits, f \in NanoSamples,
                          d \in 0..9}

\* one run of the conversions: the number given, the quotation made of it,
\* the number read back
NoConversion == [phase |-> "idle", value |-> Num(0, 0, 0),
                 quotation |-> NoQuotation, float |-> Fx(0, 0)]

\* the values 190 + Math.random() * 2 can take: 190, just below 192, and 192
\* itself (the sum rounds up to 192 for Math.random() close to 1)
MockPrices == {Fx(190, 0), Fx(191, 999999999), Fx(192, 0)}

\* --------------------------------------------------------- remote gateway
\* the outcomes of one remote call: a failure with its message (transport
\* error, non-success status, undecodable body), or the decoded body.  A
\* field the body does not carry is a field the record does not have.
Failures == {[ok |-> FALSE, error |-> "fetch failed"],
             [ok |-> FALSE, error |-> "HTTP error! status: 500"],
             [ok |-> FALSE, error |-> "Unexpected token in JSON"]}
Ok(body) == [ok |-> TRUE, body |-> body]
NoFields == [unrelated |-> TRUE]
Has(m, k) == k \in DOMAIN m

Instruments == [ticker : Tickers, figi : Figis, instrumentType : {"share", "etf"}]
SearchOutcomes ==
    Failures \cup {Ok(NoFields), Ok([instruments |-> <<>>])}
             \cup {Ok([instruments |-> <<i>>]) : i \in Instruments}

Accounts == [id : AccountIds,
             type : {"ACCOUNT_TYPE_TINKOFF", "ACCOUNT_TYPE_INVEST_BOX"}]
AccountsOutcomes ==
    Failures \cup {Ok(NoFields), Ok([accounts |-> <<>>])}
             \cup {Ok([accounts |-> <<a>>]) : a \in Accounts}

\* GetOrderBook (main, part_000)
OrderbookOutcomes ==
    Failures \cup {Ok(NoFields)} \cup {Ok([lastPrice |-> q]) : q \in Quotations}

\* getLastPrices (part_001)
LastPricesOutcomes ==
    Failures \cup {Ok(NoFields), Ok([lastPrices |-> <<>>]),
                   Ok([lastPrices |-> <<NoFields>>])}
             \cup {Ok([lastPrices |-> <<[price |-> q]>>]) : q \in Quotations}

Position == [figi |-> "F1"]
PositionLists == {<<>>} \cup {[i \in 1..n |-> Position] : n \in 1..MaxPositions}
PortfolioOutcomes ==
    Failures \cup {Ok(NoFields)}
             \cup {Ok([totalAmountPortfolio |-> [units |-> 192], positions |-> p]) :
                       p \in PositionLists}

PostOutcomes ==
    Failures \cup {Ok([orderId |-> "order_1",
                       executionReportStatus |-> "EXECUTION_REPORT_STATUS_NEW"])}

InstrumentOutcomes == Failures \cup {Ok(NoFields), Ok([instrument |-> [ticker |-> "SBER"]])}

TypeErrorMessage == "Cannot read properties of undefined"

\* ----------------------------------------------------------------- requests
CallNames == {"search", "accounts", "price", "portfolio", "post", "instrument"}
ZeroCalls == [c \in CallNames |-> 0]
NoData == [none |-> TRUE]
NoBody == [none |-> TRUE]

\* order bodies: any subset of the four fields; quantity 0 is a present but
\* falsy value; a price is a JSON number, which parseFloat gives back as it
\* is; the price is 191.9999999996, whose fraction is nearer to a whole unit
\* than to 999,999,999 nanos
OrderPrices == {Num(191, 999999999, 6)}
Fields == {"ticker", "quantity", "price", "direction"}
FieldValues == [ticker : Tickers, quantity : {0, 10},
                price : OrderPrices, direction : {"buy"}]
Bodies == {[f \in S |-> v[f]] : S \in SUBSET Fields, v \in FieldValues}

IdleReq == [pc |-> "idle", kind |-> "none", ticker |-> "", body |-> NoBody,
            payload |-> NoBody,
            now |-> 0, figi |-> "", accountId |-> "", inflight |-> 0,
            status |-> 0, success |-> FALSE, data |-> NoData, error |-> "",
            calls |-> ZeroCalls, upstreamFailed |-> FALSE, absentField |-> FALSE]

NewReq(kind) == [IdleReq EXCEPT !.kind = kind]

\* a remote call is issued and the task suspends on it
Issue(rq, call) ==
    [rq EXCEPT !.pc = call, !.inflight = 1, !.calls[call] = @ + 1]

\* the response is sent and the task ends; its locals are gone
Respond(rq, status, success, data, error) ==
    [rq EXCEPT !.pc = "done", !.inflight = 0, !.status = status,
               !.success = success, !.data = data, !.error = error,
               !.body = NoBody, !.payload = NoBody, !.now = 0, !.figi = "",
               !.accountId = ""]

MapSet(m, k, v) == [x \in DOMAIN m \cup {k} |-> IF x = k THEN v ELSE m[x]]
EmptyMap == [x \in {} |-> 0]

\* the first element of a list whose index is in idx: <<>> when there is none
First(list, idx) ==
    IF idx = {} THEN <<>>
    ELSE <<list[CHOOSE i \in idx : \A j \in idx : i <= j]>>

\* ------------------------------------------------------------ error policy
\* what each handler answers when a step of it throws
MockPrice(rq, rnd) ==
    [price |-> rnd, ticker |-> rq.ticker, timestamp |-> clock, isMock |-> TRUE]

\* GET /api/price: a synthetic price (main, part_000), an error (part_001)
PriceFailure(rq, msg, rnd) ==
    IF variant = "part_001" THEN Respond(rq, 500, FALSE, NoData, msg)
    ELSE Respond(rq, 200, TRUE, MockPrice(rq, rnd), "")

\* GET /api/portfolio: an empty portfolio (main, part_000), an error (part_001)
PortfolioFailure(rq, msg) ==
    IF variant = "main"
    THEN Respond(rq, 200, TRUE,
                 [totalAmountPortfolio |-> [units |-> 0, nano |-> 0],
                  positions |-> <<>>], "")
    ELSE IF variant = "part_000"
    THEN Respond(rq, 200, TRUE,
                 [totalAmount |-> Fx(0, 0), positions |-> <<>>,
                  isMock |-> TRUE], "")
    ELSE Respond(rq, 500, FALSE, NoData, msg)

\* the answer the order endpoint would give if it masked failures the way the
\* read endpoints do
OrderFailureMasked(rq, msg) == Respond(rq, 200, TRUE, [isMock |-> TRUE], "")

\* POST /api/order/limit: the error, with its message
OrderFailure(rq, msg) == Respond(rq, 500, FALSE, NoData, msg)

\* GET /api/status: "limited" (part_000), an error (part_001)
StatusFailure(rq, msg) ==
    IF variant = "part_000"
    THEN Respond(rq, 200, TRUE,
                 [status |-> "limited", timestamp |-> clock,
                  message |-> "API available in limited mode",
                  error |-> msg], "")
    ELSE Respond(rq, 500, FALSE, NoData, msg)

Thrown(rq, msg, rnd) ==
    LET f == [rq EXCEPT !.upstreamFailed = TRUE] IN
    CASE rq.kind = "price" -> PriceFailure(f, msg, rnd)
      [] rq.kind = "portfolio" -> PortfolioFailure(f, msg)
      [] rq.kind = "order" -> OrderFailure(f, msg)
      [] rq.kind = "status" -> StatusFailure(f, msg)
      [] OTHER -> IdleReq      \* the start-up probe of part_001 only logs

\* ------------------------------------------------- identifier resolution
\* getAccountId up to its await: the cached id, or the listing call
ResolveAccount(rq) ==
    IF cachedAccountId # ""
    THEN [done |-> TRUE, rq |-> [rq EXCEPT !.accountId = cachedAccountId]]
    ELSE [done |-> FALSE, rq |-> Issue(rq, "accounts")]

Online(rq, accountId) ==
    IF variant = "part_001"
    THEN Respond(rq, 200, TRUE,
                 [status |-> "online", timestamp |-> clock,
                  accountId |-> accountId], "")
    ELSE Respond(rq, 200, TRUE,
                 [status |-> "online", timestamp |-> clock,
                  message |-> "Tinkoff API connected successfully"], "")

\* the body of the PostOrder call (the random orderId left out)
OrderPayload(rq) ==
    [figi |-> rq.figi, quantity |-> rq.body.quantity,
     price |-> floatToQuotation(rq.body.price),
     direction |-> IF rq.body.direction = "buy" THEN "ORDER_DIRECTION_BUY"
                   ELSE "ORDER_DIRECTION_SELL",
     accountId |-> rq.accountId, orderType |-> "ORDER_TYPE_LIMIT"]

\* the handler once it holds the account id
AfterAccount(rq, accountId) ==
    LET a == [rq EXCEPT !.accountId = accountId] IN
    CASE rq.kind = "portfolio" -> Issue(a, "portfolio")
      [] rq.kind = "order" -> Issue([a EXCEPT !.payload = OrderPayload(a)], "post")
      [] rq.kind = "status" -> Online(a, accountId)
      [] OTHER -> IdleReq

\* the handler once it holds the instrument id (part_000, part_001)
AfterFigi(rq, figi) ==
    LET a == [rq EXCEPT !.figi = figi] IN
    IF rq.kind = "price" THEN Issue(a, "price")
    ELSE LET res == ResolveAccount(a) IN
         IF res.done THEN AfterAccount(res.rq, res.rq.accountId) ELSE res.rq

\* getFigiForTicker up to its await: the cached id, or the search call
ResolveFigi(rq) ==
    IF Has(tickerFigiMap, rq.ticker)
    THEN AfterFigi(rq, tickerFigiMap[rq.ticker])
    ELSE Issue(rq, "search")

\* --------------------------------------------------------------- state
\* the state once the module is loaded; lim bounds the requests of a run
Loaded(lim) ==
    /\ variant \in Variants
    /\ clock = StartClock
    /\ priceCache = EmptyMap
    /\ lastUpdate = 0
    /\ tickerFigiMap = EmptyMap
    /\ cachedAccountId = ""
    \* part_001 probes the account once the server listens
    /\ req = [r \in Reqs |->
                 IF variant = "part_001" /\ r = 1
                 THEN Issue(NewReq("startup"), "accounts")
                 ELSE IdleReq]
    /\ started = 0
    /\ limit = lim
    /\ fetchedAt = EmptyMap
    /\ resolved = {}
    /\ listings = 0

\* a server: no conversion is under way outside a request
Boot(lim) == Loaded(lim) /\ conv = NoConversion

Init == Boot(MaxRequests)

\* a response leaves in the step that builds it, before any other event runs
Delivered == \A r \in Reqs : req[r].pc # "done"

\* a new request runs as the first free task
CanStart(r) ==
    /\ Delivered
    /\ req[r].pc = "idle"
    /\ \A o \in Reqs : o < r => req[o].pc # "idle"
    /\ started < limit

\* ---------------------------------------------------------- GET /api/price
\* the freshness test of the quote cache
CacheFresh(t) ==
    IF variant = "main"
    THEN clock - lastUpdate < CACHE_TTL_MS /\ Has(priceCache, t)
    ELSE Has(priceCache, t) /\ clock - priceCache[t].timestamp < CACHE_TTL_MS

PriceStart(r, q) ==
    /\ CanStart(r)
    /\ started' = started + 1
    /\ LET t  == IF q = NoParam THEN DefaultTicker ELSE q
           rq == [NewReq("price") EXCEPT
                     !.ticker = t,
                     !.now = IF variant = "main" THEN clock ELSE 0]
       IN  req' = [req EXCEPT ![r] =
              IF variant = "part_001" /\ q = NoParam
              THEN Respond(NewReq("price"), 400, FALSE, NoData,
                           "Missing 'ticker' parameter")
              ELSE IF CacheFresh(t)
              THEN Respond(rq, 200, TRUE, priceCache[t], "")
              ELSE IF variant = "main" THEN Issue(rq, "search")
              ELSE ResolveFigi(rq)]
    /\ UNCHANGED <<variant, limit, conv, clock, priceCache, lastUpdate, tickerFigiMap,
                   cachedAccountId, fetchedAt, resolved, listings>>

\* the instrument the handler picks from a search result: <<>> when none
PickInstrument(list, t) ==
    IF variant = "main" THEN First(list, DOMAIN list)
    ELSE IF variant = "part_000"
    THEN First(list, {i \in DOMAIN list : list[i].ticker = t})
    ELSE First(list, {i \in DOMAIN list :
                         list[i].ticker = t /\ list[i].instrumentType = "etf"})

SearchReturn(r, out, rnd) ==
    /\ Delivered
    /\ req[r].pc = "search"
    /\ LET rq   == req[r]
           t    == rq.ticker
           list == IF out.ok /\ Has(out.body, "instruments")
                   THEN out.body.instruments ELSE <<>>
           pick == PickInstrument(list, t)
       IN  IF ~out.ok
           THEN /\ req' = [req EXCEPT ![r] = Thrown(rq, out.error, rnd)]
                /\ UNCHANGED <<tickerFigiMap, resolved>>
           ELSE IF variant # "main" /\ ~Has(out.body, "instruments")
           THEN /\ req' = [req EXCEPT ![r] = Thrown(rq, TypeErrorMessage, rnd)]
                /\ UNCHANGED <<tickerFigiMap, resolved>>
           ELSE IF pick = <<>>
           THEN /\ req' = [req EXCEPT ![r] = Thrown(rq, "Instrument not found", rnd)]
                /\ UNCHANGED <<tickerFigiMap, resolved>>
           ELSE /\ resolved' = resolved \cup {t}
                /\ IF variant = "main"
                   THEN /\ tickerFigiMap' = tickerFigiMap
                        /\ req' = [req EXCEPT ![r] =
                              Issue([rq EXCEPT !.figi = pick[1].figi],
                                    IF rq.kind = "price" THEN "price" ELSE "accounts")]
                   ELSE /\ tickerFigiMap' = MapSet(tickerFigiMap, t, pick[1].figi)
                        /\ req' = [req EXCEPT ![r] = AfterFigi(rq, pick[1].figi)]
    /\ UNCHANGED <<variant, limit, conv, clock, priceCache, lastUpdate, cachedAccountId,
                   started, fetchedAt, listings>>

\* the entry built from a successful price fetch
PriceData(rq, body) ==
    IF variant = "main"
    THEN [price |-> quotationToFloat(IF Has(body, "lastPrice")
                                     THEN body.lastPrice ELSE NoQuotation),
          figi |-> rq.figi, ticker |-> rq.ticker, timestamp |-> rq.now]
    ELSE IF variant = "part_000"
    THEN [price |-> quotationToFloat(IF Has(body, "lastPrice")
                                     THEN body.lastPrice ELSE NoQuotation),
          timestamp |-> clock, figi |-> rq.figi, ticker |-> rq.ticker]
    ELSE [price |-> quotationToFloat(IF Has(body.lastPrices[1], "price")
                                     THEN body.lastPrices[1].price ELSE NoQuotation),
          timestamp |-> clock]

PriceReturn(r, out, rnd) ==
    /\ Delivered
    /\ req[r].pc = "price"
    /\ out \in (IF variant = "part_001" THEN LastPricesOutcomes ELSE OrderbookOutcomes)
    /\ LET rq == req[r]
           t  == rq.ticker
       IN  IF ~out.ok
           THEN /\ req' = [req EXCEPT ![r] = Thrown(rq, out.error, rnd)]
                /\ UNCHANGED <<priceCache, lastUpdate, fetchedAt>>
           ELSE IF variant = "part_001" /\
                   (~Has(out.body, "lastPrices") \/ Len(out.body.lastPrices) = 0)
           THEN /\ req' = [req EXCEPT ![r] = Thrown(rq, "No price data", rnd)]
                /\ UNCHANGED <<priceCache, lastUpdate, fetchedAt>>
           ELSE LET priceData == PriceData(rq, out.body) IN
                /\ priceCache' = MapSet(priceCache, t, priceData)
                /\ lastUpdate' = IF variant = "main" THEN rq.now ELSE lastUpdate
                /\ fetchedAt' = MapSet(fetchedAt, t, clock)
                /\ req' = [req EXCEPT ![r] = Respond(rq, 200, TRUE, priceData, "")]
    /\ UNCHANGED <<variant, limit, conv, clock, tickerFigiMap, cachedAccountId, started,
                   resolved, listings>>

\* ------------------------------------------------------ GET /api/portfolio
PortfolioStart(r) ==
    /\ CanStart(r)
    /\ started' = started + 1
    /\ LET rq  == NewReq("portfolio")
           res == ResolveAccount(rq)
       IN  req' = [req EXCEPT ![r] =
              IF variant = "main" THEN Issue(rq, "accounts")
              ELSE IF res.done THEN AfterAccount(res.rq, res.rq.accountId)
              ELSE res.rq]
    /\ UNCHANGED <<variant, limit, conv, clock, priceCache, lastUpdate, tickerFigiMap,
                   cachedAccountId, fetchedAt, resolved, listings>>

\* the account the code picks from a listing: <<>> when none
PickAccount(list) ==
    IF variant = "part_001"
    THEN First(list, {i \in DOMAIN list : list[i].type = "ACCOUNT_TYPE_TINKOFF"})
    ELSE First(list, DOMAIN list)

\* the message of the error an empty or field-less listing raises
NoAccountMessage(rq, body) ==
    IF variant = "main"
    THEN (IF rq.kind = "order" THEN TypeErrorMessage ELSE "No accounts found")
    ELSE IF variant = "part_000" THEN "No accounts found"
    ELSE IF Has(body, "accounts") THEN "No suitable investment account found."
    ELSE TypeErrorMessage

AccountsReturn(r, out, rnd) ==
    /\ Delivered
    /\ req[r].pc = "accounts"
    /\ LET rq   == req[r]
           list == IF out.ok /\ Has(out.body, "accounts")
                   THEN out.body.accounts ELSE <<>>
           pick == PickAccount(list)
       IN  IF ~out.ok
           THEN /\ req' = [req EXCEPT ![r] = Thrown(rq, out.error, rnd)]
                /\ UNCHANGED <<cachedAccountId, listings>>
           ELSE IF pick = <<>>
           THEN /\ req' = [req EXCEPT ![r] =
                              Thrown(rq, NoAccountMessage(rq, out.body), rnd)]
                /\ UNCHANGED <<cachedAccountId, listings>>
           ELSE /\ listings' = listings + 1
                /\ cachedAccountId' = IF variant = "main" THEN cachedAccountId
                                      ELSE pick[1].id
                /\ req' = [req EXCEPT ![r] = AfterAccount(rq, pick[1].id)]
    /\ UNCHANGED <<variant, limit, conv, clock, priceCache, lastUpdate, tickerFigiMap,
                   started, fetchedAt, resolved>>

\* part_001 formats every position: one getInstrumentBy call per position,
\* all issued before any is awaited (Promise.all over positions.map)
FormatPositions(rq, positions) ==
    IF Len(positions) = 0 THEN Respond(rq, 200, TRUE, <<>>, "")
    ELSE [rq EXCEPT !.pc = "instrument", !.inflight = Len(positions),
                    !.calls["instrument"] = @ + Len(positions),
                    !.data = [i \in 1..Len(positions) |->
                                 [figi |-> positions[i].figi, ticker |-> ""]]]

PortfolioReturn(r, out, rnd) ==
    /\ Delivered
    /\ req[r].pc = "portfolio"
    /\ LET rq == req[r]
           positions == IF out.ok /\ Has(out.body, "positions")
                        THEN out.body.positions ELSE <<>>
       IN  req' = [req EXCEPT ![r] =
              IF ~out.ok THEN Thrown(rq, out.error, rnd)
              ELSE IF variant = "main" THEN Respond(rq, 200, TRUE, out.body, "")
              ELSE IF variant = "part_000"
              THEN Respond(rq, 200, TRUE,
                      [totalAmount |-> moneyValueToFloat(
                           IF Has(out.body, "totalAmountPortfolio")
                           THEN out.body.totalAmountPortfolio ELSE NoQuotation),
                       positions |-> positions], "")
              ELSE IF ~Has(out.body, "positions")
              THEN Thrown(rq, TypeErrorMessage, rnd)
              ELSE FormatPositions(rq, positions)]
    /\ UNCHANGED <<variant, limit, conv, clock, priceCache, lastUpdate, tickerFigiMap,
                   cachedAccountId, started, fetchedAt, resolved, listings>>

\* one getInstrumentBy call of a part_001 portfolio request returns; a failed
\* call is caught and leaves the position's FIGI as its ticker
InstrumentReturn(r, i, out) ==
    /\ Delivered
    /\ req[r].pc = "instrument"
    /\ i \in DOMAIN req[r].data
    /\ req[r].data[i].ticker = ""
    /\ LET rq == req[r]
           ticker == IF out.ok /\ Has(out.body, "instrument")
                     THEN out.body.instrument.ticker ELSE rq.data[i].figi
           data == [rq.data EXCEPT ![i].ticker = ticker]
       IN  req' = [req EXCEPT ![r] =
              IF rq.inflight = 1 THEN Respond(rq, 200, TRUE, data, "")
              ELSE [rq EXCEPT !.inflight = @ - 1, !.data = data]]
    /\ UNCHANGED <<variant, limit, conv, clock, priceCache, lastUpdate, tickerFigiMap,
                   cachedAccountId, started, fetchedAt, resolved, listings>>

\* ---------------------------------------------------- POST /api/order/limit
\* a field is truthy when present and not 0 (the one falsy value of Bodies)
Truthy(body, f) == Has(body, f) /\ ~(f = "quantity" /\ body[f] = 0)

\* the presence test without its last operand
MissingFieldsNoDirection(body) ==
    \/ ~Truthy(body, "ticker")
    \/ ~Truthy(body, "quantity")
    \/ ~Truthy(body, "price")

\* !ticker || !quantity || !price || !direction
MissingFields(body) ==
    \/ ~Truthy(body, "ticker")
    \/ ~Truthy(body, "quantity")
    \/ ~Truthy(body, "price")
    \/ ~Truthy(body, "direction")

OrderStart(r, body) ==
    /\ CanStart(r)
    /\ started' = started + 1
    /\ LET rq == [NewReq("order") EXCEPT
                     !.absentField = \E f \in Fields : ~Has(body, f)]
           go == [rq EXCEPT !.ticker = body.ticker, !.body = body]
       IN  req' = [req EXCEPT ![r] =
              IF MissingFields(body)
              THEN Respond(rq, 400, FALSE, NoData, "Missing required fields")
              ELSE IF variant = "main" THEN Issue(go, "search")
              ELSE ResolveFigi(go)]
    /\ UNCHANGED <<variant, limit, conv, clock, priceCache, lastUpdate, tickerFigiMap,
                   cachedAccountId, fetchedAt, resolved, listings>>

\* the body of the request is not JSON (main, part_000: request.json() throws)
OrderMalformed(r) ==
    /\ CanStart(r)
    /\ variant # "part_001"
    /\ started' = started + 1
    /\ req' = [req EXCEPT ![r] =
          Respond(NewReq("order"), 500, FALSE, NoData, "Unexpected token in JSON")]
    /\ UNCHANGED <<variant, limit, conv, clock, priceCache, lastUpdate, tickerFigiMap,
                   cachedAccountId, fetchedAt, resolved, listings>>

PostReturn(r, out, rnd) ==
    /\ Delivered
    /\ req[r].pc = "post"
    /\ LET rq == req[r] IN
       req' = [req EXCEPT ![r] =
          IF ~out.ok THEN Thrown(rq, out.error, rnd)
          ELSE IF variant = "main" THEN Respond(rq, 200, TRUE, out.body, "")
          ELSE IF variant = "part_000"
          THEN Respond(rq, 200, TRUE,
                  [orderId |-> out.body.orderId,
                   status |-> out.body.executionReportStatus,
                   message |-> "Order placed successfully"], "")
          ELSE Respond(rq, 200, TRUE,
                  [orderId |-> out.body.orderId,
                   executionReportStatus |-> out.body.executionReportStatus,
                   message |-> "Order placed successfully"], "")]
    /\ UNCHANGED <<variant, limit, conv, clock, priceCache, lastUpdate, tickerFigiMap,
                   cachedAccountId, started, fetchedAt, resolved, listings>>

\* --------------------------------------------------------- GET /api/status
StatusStart(r) ==
    /\ CanStart(r)
    /\ started' = started + 1
    /\ LET rq  == NewReq("status")
           res == ResolveAccount(rq)
       IN  req' = [req EXCEPT ![r] =
              IF variant = "main"
              THEN Respond(rq, 200, TRUE,
                      [status |-> "online", timestamp |-> clock,
                       message |-> "Tinkoff API server is running"], "")
              ELSE IF res.done THEN AfterAccount(res.rq, res.rq.accountId)
              ELSE res.rq]
    /\ UNCHANGED <<variant, limit, conv, clock, priceCache, lastUpdate, tickerFigiMap,
                   cachedAccountId, fetchedAt, resolved, listings>>

\* ------------------------------------------------------------------ time
Tick ==
    /\ Delivered
    /\ clock < StartClock + MaxTicks * TickMs
    /\ clock' = clock + TickMs
    /\ UNCHANGED <<variant, limit, conv, priceCache, lastUpdate, tickerFigiMap,
                   cachedAccountId, req, started, fetchedAt, resolved, listings>>

\* the response has been delivered
Release(r) ==
    /\ req[r].pc = "done"
    /\ req' = [req EXCEPT ![r] = IdleReq]
    /\ UNCHANGED <<variant, limit, conv, clock, priceCache, lastUpdate, tickerFigiMap,
                   cachedAccountId, started, fetchedAt, resolved, listings>>

Next ==
    \/ \E r \in Reqs, q \in Tickers \cup {NoParam} : PriceStart(r, q)
    \/ \E r \in Reqs, out \in SearchOutcomes, rnd \in MockPrices :
          SearchReturn(r, out, rnd)
    \/ \E r \in Reqs, out \in OrderbookOutcomes \cup LastPricesOutcomes,
          rnd \in MockPrices : PriceReturn(r, out, rnd)
    \/ \E r \in Reqs : PortfolioStart(r)
    \/ \E r \in Reqs, out \in AccountsOutcomes, rnd \in MockPrices :
          AccountsReturn(r, out, rnd)
    \/ \E r \in Reqs, out \in PortfolioOutcomes, rnd \in MockPrices :
          PortfolioReturn(r, out, rnd)
    \/ \E r \in Reqs, i \in 1..MaxPositions, out \in InstrumentOutcomes :
          InstrumentReturn(r, i, out)
    \/ \E r \in Reqs, body \in Bodies : OrderStart(r, body)
    \/ \E r \in Reqs : OrderMalformed(r)
    \/ \E r \in Reqs, out \in PostOutcomes, rnd \in MockPrices :
          PostReturn(r, out, rnd)
    \/ \E r \in Reqs : StatusStart(r)
    \/ \E r \in Reqs : Release(r)
    \/ Tick

Spec == Init /\ [][Next]_vars

\* the quote cache alone: price requests only, one more of them
NextQuote ==
    \/ \E r \in Reqs, q \in Tickers \cup {NoParam} : PriceStart(r, q)
    \/ \E r \in Reqs, out \in SearchOutcomes, rnd \in MockPrices :
          SearchReturn(r, out, rnd)
    \/ \E r \in Reqs, out \in OrderbookOutcomes \cup LastPricesOutcomes,
          rnd \in MockPrices : PriceReturn(r, out, rnd)
    \/ \E r \in Reqs, out \in AccountsOutcomes, rnd \in MockPrices :
          AccountsReturn(r, out, rnd)
    \/ \E r \in Reqs : Release(r)
    \/ Tick

SpecQuote == Boot(MaxQuoteRequests) /\ [][NextQuote]_vars

\* the order endpoint alone (no step of it reads the clock)
NextOrder ==
    \/ \E r \in Reqs, body \in Bodies : OrderStart(r, body)
    \/ \E r \in Reqs : OrderMalformed(r)
    \/ \E r \in Reqs, out \in SearchOutcomes, rnd \in MockPrices :
          SearchReturn(r, out, rnd)
    \/ \E r \in Reqs, out \in AccountsOutcomes, rnd \in MockPrices :
          AccountsReturn(r, out, rnd)
    \/ \E r \in Reqs, out \in PostOutcomes, rnd \in MockPrices :
          PostReturn(r, out, rnd)
    \/ \E r \in Reqs : Release(r)

SpecOrder == Boot(MaxOrderRequests) /\ [][NextOrder]_vars

\* ------------------------------------------------- the numeric conversions
\* the helpers on their own: a number is given, floatToQuotation is applied
\* to it, quotationToFloat to what there is (the quotation made, or none)
InitConv ==
    /\ Loaded(0)
    /\ conv \in {[NoConversion EXCEPT !.phase = "value", !.value = v] :
                     v \in Values}

ToQuotation ==
    /\ conv.phase = "value"
    /\ conv' = [conv EXCEPT !.phase = "quotation",
                             !.quotation = floatToQuotation(conv.value)]
    /\ UNCHANGED <<variant, limit, clock, priceCache, lastUpdate, tickerFigiMap,
                   cachedAccountId, req, started, fetchedAt, resolved, listings>>

ToFloat ==
    /\ conv.phase \in {"value", "quotation"}
    /\ conv' = [conv EXCEPT !.phase = "float",
                             !.float = quotationToFloat(conv.quotation)]
    /\ UNCHANGED <<variant, limit, clock, priceCache, lastUpdate, tickerFigiMap,
                   cachedAccountId, req, started, fetchedAt, resolved, listings>>

NextConv == ToQuotation \/ ToFloat

SpecConv == InitConv /\ [][NextConv]_vars

\* ================================================================ properties
\* the step in which task r starts handling a request of the given kind
Starts(r, kind) ==
    req[r].pc = "idle" /\ req'[r].pc # "idle" /\ req'[r].kind = kind

\* a price request answered from the quote cache: no remote call at all
IsHit(rq) ==
    rq.kind = "price" /\ rq.pc = "done" /\ rq.status = 200 /\ rq.calls = ZeroCalls

Caches == <<priceCache, lastUpdate, tickerFigiMap, cachedAccountId>>

Leq(a, b) == a.w < b.w \/ (a.w = b.w /\ a.f <= b.f)

ReadKinds == {"price", "portfolio", "status"}

\* the number x (in nanos) is within 1e-9 of the number v (in tenths of a
\* nano): x - v is 10 * n - v.d tenths, n the difference in whole nanos
WithinNano(x, v) ==
    /\ x.w - v.w \in {-1, 0, 1}
    /\ LET n == (x.w - v.w) * NANO + (x.f - v.f) IN
         /\ n \in -1..2
         /\ 10 * n - v.d >= -10
         /\ 10 * n - v.d <= 10

\* C1: a price request for t that starts less than 5000 ms after the remote
\* price fetch behind t's cached entry is answered with that entry and issues
\* no remote call; one that starts 5000 ms or more after that fetch is not
\* answered from the cache and goes to the upstream again.
C1_QuoteCacheTtl ==
    [][\A r \in Reqs, t \in Tickers :
          (Starts(r, "price") /\ req'[r].ticker = t /\ Has(fetchedAt, t)) =>
             IF clock - fetchedAt[t] < CACHE_TTL_MS
             THEN IsHit(req'[r]) /\ req'[r].data = priceCache[t]
             ELSE req'[r].inflight = 1 /\ req'[r].pc \in {"search", "price"}]_vars

\* C2: a price request for t finds a cached entry of t fresh exactly when
\* less than 5000 ms have passed since the timestamp of t's own entry,
\* whatever was fetched for other tickers in between.
C2_TickerScopedFreshness ==
    [][\A r \in Reqs, t \in Tickers :
          (Starts(r, "price") /\ req'[r].ticker = t /\ Has(priceCache, t)) =>
             (IsHit(req'[r]) <=> clock - priceCache[t].timestamp < CACHE_TTL_MS)]_vars

\* C3: a request that starts after its ticker has been resolved to an
\* instrument id issues no remote instrument search.
C3_TickerResolutionMemoized ==
    [][\A r \in Reqs :
          ((Starts(r, "price") \/ Starts(r, "order")) /\ req'[r].ticker \in resolved)
             => req'[r].calls["search"] = 0 /\ req'[r].pc # "search"]_vars

\* C4: an order request whose body lacks one of ticker, quantity, price,
\* direction is answered 400 with success:false in the step that starts it,
\* issues no remote call and leaves every cache as it was.
C4_MissingFieldRejected ==
    [][\A r \in Reqs :
          (Starts(r, "order") /\ req'[r].absentField) =>
             /\ req'[r].pc = "done"
             /\ req'[r].status = 400
             /\ ~req'[r].success
             /\ req'[r].calls = ZeroCalls
             /\ req'[r].inflight = 0
             /\ Caches' = Caches]_vars

C4_Witness ==
    \E r \in Reqs :
        /\ req[r].kind = "order" /\ req[r].absentField
        /\ req[r].pc = "done" /\ req[r].status = 400
        /\ tickerFigiMap # EmptyMap
        /\ cachedAccountId # ""

\* C5: a price request that missed the quote cache and met an upstream
\* failure is answered 200, success:true, isMock:true, 190 <= price <= 192.
C5_PriceFailureIsMock ==
    \A r \in Reqs :
        (req[r].kind = "price" /\ req[r].pc = "done" /\ req[r].upstreamFailed) =>
           /\ req[r].status = 200
           /\ req[r].success
           /\ Has(req[r].data, "isMock")
           /\ req[r].data.isMock
           /\ Leq(Fx(190, 0), req[r].data.price)
           /\ Leq(req[r].data.price, Fx(192, 0))

\* C6: an order request with its four fields that met an upstream failure
\* (search, account listing or order post) is answered 500, success:false,
\* with a non-empty error string and no payload.
C6_OrderFailureIs500 ==
    \A r \in Reqs :
        (req[r].kind = "order" /\ req[r].pc = "done" /\ req[r].upstreamFailed) =>
           /\ req[r].status = 500
           /\ ~req[r].success
           /\ req[r].error # ""
           /\ req[r].data = NoData

C6_Witness ==
    \E r \in Reqs :
        /\ req[r].kind = "order" /\ req[r].pc = "done" /\ req[r].upstreamFailed
        /\ req[r].calls["search"] = 1
        /\ req[r].calls["accounts"] = 1
        /\ req[r].calls["post"] = 1
        /\ req[r].status = 500

\* C7: every answered GET on /api/price (with a ticker), /api/portfolio or
\* /api/status has status 200, and a status request that met an upstream
\* failure answers "limited".
C7_ReadsNeverFail ==
    \A r \in Reqs :
        (req[r].kind \in ReadKinds /\ req[r].pc = "done"
            /\ (req[r].kind = "price" => req[r].ticker # "")) =>
           /\ req[r].status = 200
           /\ (req[r].kind = "status" /\ req[r].upstreamFailed) =>
                 (Has(req[r].data, "status") /\ req[r].data.status = "limited")

\* C8: the account listing succeeds at most once; once it has succeeded no
\* request issues an account-listing call; a listing call that fails or
\* finds no account caches no account id.
C8_AccountResolvedOnce ==
    [][/\ listings' <= 1
       /\ \A r \in Reqs :
             /\ (req'[r].calls["accounts"] > req[r].calls["accounts"])
                    => listings = 0
             /\ (req[r].pc = "accounts" /\ req'[r].upstreamFailed)
                    => cachedAccountId' = cachedAccountId]_vars

\* C9: no request has more than one remote call in flight.
C9_OneCallInFlight == \A r \in Reqs : req[r].inflight <= 1

\* C10: an instrument id stored for a ticker is never changed or removed.
C10_FigiPermanent ==
    [][\A t \in DOMAIN tickerFigiMap :
          Has(tickerFigiMap', t) /\ tickerFigiMap'[t] = tickerFigiMap[t]]_vars

\* C11: the number read back from the quotation made of v is within 1e-9 of
\* v, for every v of either sign, and the number read from an absent
\* quotation is 0.
C11_RoundTrip ==
    conv.phase = "float" =>
        IF conv.quotation = NoQuotation
        THEN conv.float = Fx(0, 0)
        ELSE WithinNano(conv.float, conv.value)

\* a negative number with a fraction below the nano has made the round trip
C11_Witness ==
    /\ conv.phase = "float"
    /\ conv.quotation # NoQuotation
    /\ conv.value.w < 0
    /\ conv.value.d = 6
    /\ conv.float # Fx(conv.value.w, conv.value.f)

\* C12: the price of every order sent upstream is a well-formed quotation of
\* the price asked: units is the price truncated, nano lies strictly between
\* -1e9 and 1e9, and nano does not have the sign opposite to units.
C12_SentQuotationWellFormed ==
    \A r \in Reqs :
        req[r].pc = "post" =>
            LET v == req[r].body.price
                q == req[r].payload.price
            IN  /\ q.units = (IF v.w < 0 /\ (v.f # 0 \/ v.d # 0)
                               THEN v.w + 1 ELSE v.w)
                /\ q.nano > -NANO /\ q.nano < NANO
                /\ (q.units > 0 => q.nano >= 0)
                /\ (q.units < 0 => q.nano <= 0)

\* C13: a mock price is never cached: every entry of the quote cache comes
\* from a price fetch that succeeded, carries an instrument id and no isMock
\* flag; a price request that fails leaves the quote cache and its
\* timestamps as they were; and no cache hit serves a mock price.
C13_MockNeverCached ==
    [][/\ \A t \in DOMAIN priceCache' :
              /\ Has(fetchedAt', t)
              /\ Has(priceCache'[t], "figi")
              /\ ~Has(priceCache'[t], "isMock")
       /\ \A r \in Reqs :
              (req[r].kind = "price" /\ ~req[r].upstreamFailed
                  /\ req'[r].upstreamFailed) =>
                 UNCHANGED <<priceCache, lastUpdate, fetchedAt>>
       /\ \A r \in Reqs :
              IsHit(req'[r]) => ~Has(req'[r].data, "isMock")]_vars

\* C14: however price requests overlap, a write to the quote cache never
\* lowers a timestamp: the entry of a ticker, and the cache-wide last-update
\* time, are overwritten only with a timestamp at least as large.
C14_TimestampMonotone ==
    [][/\ \A t \in DOMAIN priceCache :
              priceCache'[t].timestamp >= priceCache[t].timestamp
       /\ lastUpdate' >= lastUpdate]_vars

====
